---- MODULE Spec2Model ----
(***************************************************************************)
(* image-gen-ui-automation: the command line front end (main.py), its      *)
(* AutomationRunner, and the site drivers under src/ that it dispatches    *)
(* to.  Every browser or file operation of a driver is one step whose      *)
(* outcome (returns, raises, what it returns) is chosen by the environment.*)
(***************************************************************************)
EXTENDS Integers, Sequences, FiniteSets, TLC

\* Most elements a query_selector_all call returns in the model.
MaxElems == 3

\* Most writes of an output file that fail in one invocation.
MaxWriteFaults == 1

\* Most cancellations of the running task in one invocation.
MaxCancels == 1

None == "None"

(***************************************************************************)
(* main.py: the dispatch tables and the defaults                           *)
(***************************************************************************)
IMAGE_SERVICES ==
    [ mock    |-> [module |-> "mock_image_alteration",
                   function |-> "mock_image_automation", requires_input |-> TRUE],
      bing    |-> [module |-> "bing_image_alteration",
                   function |-> "bing_image_automation", requires_input |-> FALSE],
      craiyon |-> [module |-> "craiyon_image_alteration",
                   function |-> "craiyon_image_automation", requires_input |-> FALSE],
      deepai  |-> [module |-> "deepai_image_alteration",
                   function |-> "deepai_retry_automation", requires_input |-> FALSE] ]

CHAT_SERVICES ==
    [ openai     |-> [module |-> "openai_chat_completion",
                      function |-> "openai_chat_automation", requires_input |-> FALSE],
      claude     |-> [module |-> "claude_chat_completion",
                      function |-> "claude_chat_automation", requires_input |-> FALSE],
      gemini     |-> [module |-> "gemini_chat_completion",
                      function |-> "gemini_chat_automation", requires_input |-> FALSE],
      perplexity |-> [module |-> "perplexity_chat_completion",
                      function |-> "perplexity_chat_automation", requires_input |-> FALSE] ]

DEFAULT_INPUT   == "./data/input/dogs-playing-poker-original.jpg"
DEFAULT_SERVICE == "deepai"
DEFAULT_MODE    == "image"

\* The modules of the src directory (sys.path entry of main.py:23) and the
\* functions each of them defines.
SrcModules ==
    [ mock_automation            |-> {"mock_image_automation"},
      bing_image_alteration      |-> {"bing_image_automation"},
      craiyon_image_alteration   |-> {"craiyon_image_automation"},
      deepai_image_alteration    |-> {"deepai_retry_automation"},
      openai_chat_completion     |-> {"openai_chat_automation"},
      claude_chat_completion     |-> {"claude_chat_automation"},
      gemini_chat_completion     |-> {"gemini_chat_automation"},
      perplexity_chat_completion |-> {"perplexity_chat_automation"} ]

\* AutomationRunner: the table a mode selects (main.py:112, 122, 148).
AvailableServices(mode) == IF mode = "image" THEN IMAGE_SERVICES ELSE CHAT_SERVICES

\* Variant: a service registered in either table passes, whatever the mode.
ValidateServiceAnyMode(mode, service) ==
    service \in DOMAIN IMAGE_SERVICES \cup DOMAIN CHAT_SERVICES

\* validate_service (main.py:110-118)
ValidateService(mode, service) == service \in DOMAIN AvailableServices(mode)

\* Variant: every image service needs the input file.
ValidateInputAnyImageService(mode, service, file) ==
    IF mode = "image" THEN file \notin {None, "absent"} ELSE TRUE

\* validate_input; file is None or what input_file.exists() finds.
ValidateInput(mode, service, file) ==
    LET service_info == AvailableServices(mode)[service]
    IN  IF mode = "image" /\ service_info.requires_input
        THEN file \notin {None, "absent"}
        ELSE TRUE

\* __import__(module_name, fromlist=[function_name]) and getattr.
ImportResult(service_info) ==
    IF service_info.module \notin DOMAIN SrcModules THEN "ModuleNotFoundError"
    ELSE IF service_info.function \notin SrcModules[service_info.module]
         THEN "AttributeError"
         ELSE service_info.function

\* The command lines tried: --mode takes argparse's two choices; --service is
\* any registered key or an unregistered name; --input is the default path or
\* another one.
Modes        == {"image", "text"}
ServiceNames == DOMAIN IMAGE_SERVICES \cup DOMAIN CHAT_SERVICES \cup {"dalle"}
InputArgs    == {DEFAULT_INPUT, "./custom.jpg"}

\* bing_image_alteration.py:71-78
bing_input_selectors ==
    << "textarea[placeholder*=\"Describe\"]",
       "input[placeholder*=\"prompt\"]",
       "textarea[name=\"q\"]",
       "input[name=\"q\"]",
       "textarea",
       "input[type=\"text\"]" >>

\* bing_image_alteration.py:100-107
bing_generate_selectors ==
    << "button:has-text(\"Create\")",
       "button:has-text(\"Generate\")",
       "button[type=\"submit\"]",
       "input[type=\"submit\"]",
       "button:has-text(\"Join & Create\")",
       "[data-testid=\"create-button\"]" >>

\* bing_image_alteration.py:128-135
bing_image_selectors ==
    << "img[src*=\"th?id=OIG\"]",
       "img[src*=\"bing.com\"]",
       "img[alt*=\"Generated\"]",
       ".img_cont img",
       ".gi_container img",
       "img[data-testid*=\"result\"]" >>

\* claude_chat_completion.py:61-67
claude_input_selectors ==
    << "div[contenteditable=\"true\"]",
       "textarea[placeholder*=\"Talk\"]",
       "textarea[placeholder*=\"Message\"]",
       "textarea",
       "input[type=\"text\"]" >>

\* claude_chat_completion.py:89-95
claude_send_selectors ==
    << "button[aria-label*=\"Send\"]",
       "button:has-text(\"Send\")",
       "button[type=\"submit\"]",
       "svg[data-icon=\"send\"]",
       "[data-testid=\"send-button\"]" >>

\* claude_chat_completion.py:116-122
claude_response_selectors ==
    << "[data-testid*=\"message\"]",
       ".message-content",
       "[role=\"assistant\"]",
       ".prose",
       ".claude-response" >>

\* craiyon_image_alteration.py:71-78
craiyon_input_selectors ==
    << "input[placeholder*=\"Enter a prompt\"]",
       "textarea[placeholder*=\"prompt\"]",
       "input[type=\"text\"]",
       "textarea",
       "#prompt-input",
       ".prompt-input" >>

\* craiyon_image_alteration.py:100-107
craiyon_generate_selectors ==
    << "button:has-text(\"DRAW\")",
       "button:has-text(\"Generate\")",
       "button:has-text(\"Create\")",
       "button[type=\"submit\"]",
       "input[type=\"submit\"]",
       ".generate-btn" >>

\* craiyon_image_alteration.py:128-135
craiyon_image_selectors ==
    << "img[src*=\"craiyon\"]",
       "img[src*=\"generated\"]",
       "img[alt*=\"Generated\"]",
       ".generated-image img",
       ".result img",
       "img[data-testid*=\"result\"]" >>

\* deepai_image_alteration.py:39-43
deepai_urls ==
    << "https://deepai.org/machine-learning-model/text2img",
       "https://deepai.org/machine-learning-model/cute-creature-generator",
       "https://deepai.org/" >>

\* deepai_image_alteration.py:52-59
deepai_input_selectors ==
    << "textarea[name=\"text\"]",
       "textarea[placeholder*=\"Enter\"]",
       "input[name=\"text\"]",
       "textarea",
       "input[type=\"text\"]",
       "#text-input" >>

\* deepai_image_alteration.py:80-87
deepai_submit_selectors ==
    << "input[value*=\"Generate\"]",
       "button:has-text(\"Generate\")",
       "input[type=\"submit\"]",
       "button[type=\"submit\"]",
       "#generate-button",
       "button:has-text(\"Submit\")" >>

\* deepai_image_alteration.py:99-105
deepai_result_selectors ==
    << "img[src*=\"deepai\"]",
       "img[id*=\"output\"]",
       "#output img",
       ".result-image img",
       "img[alt*=\"Generated\"]" >>

\* gemini_chat_completion.py:61-67
gemini_input_selectors ==
    << "div[contenteditable=\"true\"]",
       "textarea[placeholder*=\"Enter\"]",
       "textarea[aria-label*=\"Message\"]",
       "textarea",
       "input[type=\"text\"]" >>

\* gemini_chat_completion.py:89-95
gemini_send_selectors ==
    << "button[aria-label*=\"Send\"]",
       "button:has-text(\"Send\")",
       "button[type=\"submit\"]",
       "[data-testid=\"send-button\"]",
       "button[data-test-id=\"send-button\"]" >>

\* gemini_chat_completion.py:116-122
gemini_response_selectors ==
    << "[data-response-index]",
       ".model-response",
       "[role=\"presentation\"]",
       ".markdown-content",
       ".response-content" >>

\* openai_chat_completion.py:70-74
openai_login_selectors ==
    << "button:has-text(\"Log in\")",
       "a:has-text(\"Log in\")",
       "button:has-text(\"Sign up\")" >>

\* openai_chat_completion.py:90-96
openai_input_selectors ==
    << "textarea[placeholder*=\"Message\"]",
       "textarea[data-id*=\"chat\"]",
       "div[contenteditable=\"true\"]",
       "textarea",
       "input[type=\"text\"]" >>

\* openai_chat_completion.py:118-124
openai_send_selectors ==
    << "button[data-testid=\"send-button\"]",
       "button:has-text(\"Send\")",
       "button[type=\"submit\"]",
       "svg[data-icon=\"send\"]",
       "button[aria-label*=\"Send\"]" >>

\* openai_chat_completion.py:145-151
openai_response_selectors ==
    << "[data-message-author-role=\"assistant\"]",
       ".markdown",
       "[data-testid*=\"conversation\"]",
       ".conversation-turn",
       ".message-content" >>

\* perplexity_chat_completion.py:61-68
perplexity_input_selectors ==
    << "textarea[placeholder*=\"Ask\"]",
       "textarea[placeholder*=\"Search\"]",
       "div[contenteditable=\"true\"]",
       "input[placeholder*=\"Ask\"]",
       "textarea",
       "input[type=\"text\"]" >>

\* perplexity_chat_completion.py:90-96
perplexity_submit_selectors ==
    << "button[aria-label*=\"Submit\"]",
       "button:has-text(\"Search\")",
       "button[type=\"submit\"]",
       "[data-testid=\"submit-button\"]",
       "button:has-text(\"Ask\")" >>

\* perplexity_chat_completion.py:117-123
perplexity_response_selectors ==
    << "[data-testid*=\"answer\"]",
       ".prose",
       ".answer-content",
       "[role=\"main\"]",
       ".search-result" >>
(***************************************************************************)
(* The site drivers' constants                                             *)
(***************************************************************************)
BrowserDrivers ==
    { "bing_image_automation", "craiyon_image_automation", "deepai_retry_automation",
      "openai_chat_automation", "claude_chat_automation", "gemini_chat_automation",
      "perplexity_chat_automation" }

ImageDrivers == {"bing_image_automation", "craiyon_image_automation"}
ChatDrivers  == {"openai_chat_automation", "claude_chat_automation",
                 "gemini_chat_automation", "perplexity_chat_automation"}
DeepaiDriver == "deepai_retry_automation"
MockDriver   == "mock_image_automation"

\* What differs between the bing, craiyon and chat drivers: the URL, the
\* selector lists, the candidates scanned, the output and screenshot names.
\* take > 0: the first `take` elements; take < 0: the last -take elements.
Cfg(d) ==
    CASE d = "bing_image_automation" ->
           [ url |-> "https://www.bing.com/images/create", login |-> << >>,
             input |-> bing_input_selectors, submit |-> bing_generate_selectors,
             result |-> bing_image_selectors, take |-> 3, out |-> "bing-altered-",
             shot_input |-> "bing_no_input.png", shot_submit |-> "bing_no_button.png",
             shot_result |-> "bing_no_result.png", shot_error |-> "bing_error.png" ]
      [] d = "craiyon_image_automation" ->
           [ url |-> "https://www.craiyon.com/", login |-> << >>,
             input |-> craiyon_input_selectors, submit |-> craiyon_generate_selectors,
             result |-> craiyon_image_selectors, take |-> 3, out |-> "craiyon-altered-",
             shot_input |-> "craiyon_no_input.png", shot_submit |-> "craiyon_no_button.png",
             shot_result |-> "craiyon_no_result.png", shot_error |-> "craiyon_error.png" ]
      [] d = "openai_chat_automation" ->
           [ url |-> "https://chatgpt.com/", login |-> openai_login_selectors,
             input |-> openai_input_selectors, submit |-> openai_send_selectors,
             result |-> openai_response_selectors, take |-> -3,
             out |-> "openai-text-completion.txt",
             shot_input |-> "openai_no_input.png", shot_submit |-> "openai_no_send.png",
             shot_result |-> "openai_no_response.png", shot_error |-> "openai_error.png" ]
      [] d = "claude_chat_automation" ->
           [ url |-> "https://claude.ai/", login |-> << >>,
             input |-> claude_input_selectors, submit |-> claude_send_selectors,
             result |-> claude_response_selectors, take |-> -2,
             out |-> "claude-text-completion.txt",
             shot_input |-> "claude_no_input.png", shot_submit |-> "claude_no_send.png",
             shot_result |-> "claude_no_response.png", shot_error |-> "claude_error.png" ]
      [] d = "gemini_chat_automation" ->
           [ url |-> "https://gemini.google.com/", login |-> << >>,
             input |-> gemini_input_selectors, submit |-> gemini_send_selectors,
             result |-> gemini_response_selectors, take |-> -2,
             out |-> "gemini-text-completion.txt",
             shot_input |-> "gemini_no_input.png", shot_submit |-> "gemini_no_send.png",
             shot_result |-> "gemini_no_response.png", shot_error |-> "gemini_error.png" ]
      [] d = "perplexity_chat_automation" ->
           [ url |-> "https://www.perplexity.ai/", login |-> << >>,
             input |-> perplexity_input_selectors, submit |-> perplexity_submit_selectors,
             result |-> perplexity_response_selectors, take |-> 2,
             out |-> "perplexity-text-completion.txt",
             shot_input |-> "perplexity_no_input.png",
             shot_submit |-> "perplexity_no_submit.png",
             shot_result |-> "perplexity_no_response.png",
             shot_error |-> "perplexity_error.png" ]
      [] d = "deepai_retry_automation" ->
           [ url |-> deepai_urls[1], login |-> << >>,
             input |-> deepai_input_selectors, submit |-> deepai_submit_selectors,
             result |-> deepai_result_selectors, take |-> 2, out |-> "deepai-retry-",
             shot_input |-> None, shot_submit |-> None,
             shot_result |-> None, shot_error |-> None ]

Min(a, b) == IF a < b THEN a ELSE b

\* The indices of a list of n elements that a slice visits, in order:
\* xs[:take] for take > 0 and xs[take:] for take < 0.
SliceIdx(n, take) ==
    IF take > 0 THEN [x \in 1..Min(n, take) |-> x]
    ELSE [x \in 1..Min(n, -take) |-> n - Min(n, -take) + x]

(***************************************************************************)
(* State                                                                   *)
(***************************************************************************)
VARIABLES
    args,         \* the parsed command line (main.py:325), or the script run
    fs,           \* the file the input path names: unobserved until the program
                  \* looks, then absent or present, then (opened) image or garbage
    pc,           \* where the process is: main, validate, validate_input, run,
                  \* driver, save, exited
    exit_status,  \* -1 while the process runs, then its exit status
    runner,       \* the AutomationRunner: input_file, session_log
    validated,    \* what validate_service and validate_input returned
    success,      \* what run_service returned
    logs,         \* session log files written by save_session_log
    drv,          \* the running driver coroutine: its position and locals; an
                  \* element handle is None or "element"
    pw,           \* Playwright objects created and calls made by this invocation
    lastOp,       \* the most recent browser, network or file operation
    attempted,    \* operations attempted since the page was loaded
    repeated,     \* the operations attempted twice with the same arguments
    outdir        \* files of the output directory written by the drivers

cliVars == <<args, fs, pc, exit_status, runner, validated, success, logs>>
drvVars == <<drv, pw, lastOp, attempted, repeated, outdir>>
vars    == <<args, fs, pc, exit_status, runner, validated, success, logs,
             drv, pw, lastOp, attempted, repeated, outdir>>

\* No image: the value of an image variable that is not bound.
NoImage == [format |-> None, mode |-> None, size |-> <<0, 0>>]

Idle ==
    [ name |-> None, pc |-> "idle", url |-> 1, sel |-> 1, img_sel |-> 1,
      needs_login |-> FALSE, input_field |-> None, button |-> None,
      elems |-> << >>, e |-> 1, saved |-> 0, shot |-> None,
      pending |-> None, result |-> None,
      original |-> NoImage, img |-> NoImage, final_img |-> NoImage,
      altered |-> NoImage,
      log |-> [original_size |-> <<0, 0>>, final_size |-> <<0, 0>>] ]

NoPw == [ launches |-> 0, browsers |-> 0, contexts |-> 0, pages |-> 0,
          closes |-> 0, fills |-> 0, clicks |-> 0, writes |-> 0,
          write_faults |-> 0, cancels |-> 0 ]

NoOp == [ op |-> None, arg |-> None, res |-> None ]

\* A call of driver function f: the coroutine starts at its first await.
StartDriver(f) ==
    [ Idle EXCEPT !.name = f,
                  !.pc = IF f = MockDriver THEN "mock_mkdir" ELSE "launch" ]

CliArgs ==
    [ entry : {"cli"}, list_services : BOOLEAN, mode : Modes,
      service : ServiceNames, input : InputArgs ]

\* python src/mock_automation.py: mock_image_automation() with its defaults.
MockScriptArgs ==
    [ entry |-> "mock_script", list_services |-> FALSE, mode |-> "image",
      service |-> "mock", input |-> "./data/input/sample-original.jpg" ]

Init ==
    /\ args \in CliArgs \cup {MockScriptArgs}
    /\ fs = "unobserved"
    /\ pc = "main"
    /\ exit_status = -1
    /\ runner = [constructed |-> FALSE, input_file |-> None, session_log |-> << >>]
    /\ validated = [service |-> "not_called", input |-> "not_called"]
    /\ success = None
    /\ logs = 0
    /\ drv = Idle
    /\ pw = NoPw
    /\ lastOp = NoOp
    /\ attempted = {}
    /\ repeated = {}
    /\ outdir = << >>

Exit(status) == pc' = "exited" /\ exit_status' = status

\* Path.exists(): what the program finds when it looks at the input file.  The
\* file does not change during the run, so a second look finds the same.
Exists(looks) ==
    IF looks /\ fs = "unobserved" THEN {"absent", "present"} ELSE {fs}

Bool(b) == IF b THEN "True" ELSE "False"

(***************************************************************************)
(* main.py: main                                                           *)
(***************************************************************************)
\* main.py:327-329
ListServices ==
    /\ pc = "main" /\ args.entry = "cli" /\ args.list_services
    /\ Exit(0)
    /\ UNCHANGED <<args, fs, runner, validated, success, logs>>
    /\ UNCHANGED drvVars

\* Variant: the runner is constructed before --list-services is looked at.
CreateRunnerFirst ==
    /\ pc = "main" /\ args.entry = "cli" /\ ~runner.constructed
    /\ runner' = [runner EXCEPT !.constructed = TRUE]
    /\ UNCHANGED <<args, fs, pc, exit_status, validated, success, logs>>
    /\ UNCHANGED drvVars

\* main.py:332-338 and AutomationRunner.__init__; an exception of mkdir is not
\* caught by anything and ends the process with status 1.
CreateRunner ==
    /\ pc = "main" /\ args.entry = "cli" /\ ~args.list_services
    /\ \E st \in Exists(args.input = DEFAULT_INPUT) : \E mkdir \in {"ok", "raise"} :
         /\ fs' = st
         /\ IF mkdir = "ok"
            THEN /\ runner' = [ constructed |-> TRUE,
                                input_file |-> IF args.input # DEFAULT_INPUT \/ st # "absent"
                                               THEN args.input ELSE None,
                                session_log |-> << >> ]
                 /\ pc' = "validate"
                 /\ UNCHANGED exit_status
            ELSE /\ Exit(1)
                 /\ UNCHANGED runner
    /\ UNCHANGED <<args, validated, success, logs>>
    /\ UNCHANGED drvVars

\* main.py:341: runner.validate_service(); a False ends the process with
\* status 1 (main.py:342) before validate_input is called.
Validate ==
    /\ pc = "validate"
    /\ IF ValidateService(args.mode, args.service)
       THEN /\ validated' = [validated EXCEPT !.service = "True"]
            /\ pc' = "validate_input"
            /\ UNCHANGED exit_status
       ELSE /\ validated' = [validated EXCEPT !.service = "False"]
            /\ Exit(1)
    /\ UNCHANGED <<args, fs, runner, success, logs>>
    /\ UNCHANGED drvVars

\* Variant: what validate_input returns is not looked at.
ValidateInputCallIgnored ==
    /\ pc = "validate_input"
    /\ LET looks == /\ args.mode = "image"
                    /\ AvailableServices(args.mode)[args.service].requires_input
                    /\ runner.input_file # None
       IN  \E st \in Exists(looks) :
             LET file == IF runner.input_file = None THEN None ELSE st
                 i_ok == ValidateInput(args.mode, args.service, file)
             IN  /\ fs' = st
                 /\ validated' = [validated EXCEPT !.input = Bool(i_ok)]
                 /\ pc' = "run" /\ UNCHANGED exit_status
    /\ UNCHANGED <<args, runner, success, logs>>
    /\ UNCHANGED drvVars

\* main.py:341-342: runner.validate_input(), which looks at the input file
\* only for an image service that requires one.
ValidateInputCall ==
    /\ pc = "validate_input"
    /\ LET looks == /\ args.mode = "image"
                    /\ AvailableServices(args.mode)[args.service].requires_input
                    /\ runner.input_file # None
       IN  \E st \in Exists(looks) :
             LET file == IF runner.input_file = None THEN None ELSE st
                 i_ok == ValidateInput(args.mode, args.service, file)
             IN  /\ fs' = st
                 /\ validated' = [validated EXCEPT !.input = Bool(i_ok)]
                 /\ IF i_ok THEN pc' = "run" /\ UNCHANGED exit_status ELSE Exit(1)
    /\ UNCHANGED <<args, runner, success, logs>>
    /\ UNCHANGED drvVars

LogSession(event) == runner' = [runner EXCEPT !.session_log = Append(@, event)]

\* run_service up to the driver call (main.py:148-189): the start entry, the
\* dynamic import and the lookup of the function.
RunServiceCall ==
    /\ pc = "run"
    /\ LET service_info == AvailableServices(args.mode)[args.service]
           f == ImportResult(service_info)
       IN  IF f \in {"ModuleNotFoundError", "AttributeError"}
           THEN /\ runner' = [runner EXCEPT !.session_log =
                                 @ \o <<"automation_start", "automation_error">>]
                /\ success' = "False"
                /\ pc' = "save"
                /\ UNCHANGED drv
           ELSE /\ LogSession("automation_start")
                /\ drv' = StartDriver(f)
                /\ pc' = "driver"
                /\ UNCHANGED success
    /\ UNCHANGED <<args, fs, exit_status, validated, logs>>
    /\ UNCHANGED <<pw, lastOp, attempted, repeated, outdir>>

\* Variant: run_service without its `except Exception`: what the driver raises
\* leaves run_service.
RunServiceReturnNoExcept ==
    /\ pc = "driver" /\ args.entry = "cli" /\ drv.pc = "done"
    /\ \/ /\ drv.result = "True"
          /\ LogSession("automation_success") /\ success' = "True"
       \/ /\ drv.result = "False"
          /\ LogSession("automation_failed") /\ success' = "False"
       \/ /\ drv.result = "raised"
          /\ UNCHANGED runner /\ success' = "raised"
    /\ pc' = "save"
    /\ UNCHANGED <<args, fs, exit_status, validated, logs>>
    /\ UNCHANGED drvVars

\* Variant: a driver that returned False is not logged.
RunServiceReturnFailedUnlogged ==
    /\ pc = "driver" /\ args.entry = "cli" /\ drv.pc = "done"
    /\ \/ /\ drv.result = "True"
          /\ \E glob \in {"ok", "raise"} :
               IF glob = "ok"
               THEN LogSession("automation_success") /\ success' = "True"
               ELSE LogSession("automation_error") /\ success' = "False"
       \/ /\ drv.result = "False"
          /\ UNCHANGED runner /\ success' = "False"
       \/ /\ drv.result = "raised"
          /\ LogSession("automation_error") /\ success' = "False"
    /\ pc' = "save"
    /\ UNCHANGED <<args, fs, exit_status, validated, logs>>
    /\ UNCHANGED drvVars

\* run_service after the driver call (main.py:191-216).  _find_output_files
\* globs the output directory and may raise.
RunServiceReturn ==
    /\ pc = "driver" /\ args.entry = "cli" /\ drv.pc = "done"
    /\ \/ /\ drv.result = "True"
          /\ \E glob \in {"ok", "raise"} :
               IF glob = "ok"
               THEN LogSession("automation_success") /\ success' = "True"
               ELSE LogSession("automation_error") /\ success' = "False"
       \/ /\ drv.result = "False"
          /\ LogSession("automation_failed") /\ success' = "False"
       \/ /\ drv.result = "raised"
          /\ LogSession("automation_error") /\ success' = "False"
    /\ pc' = "save"
    /\ UNCHANGED <<args, fs, exit_status, validated, logs>>
    /\ UNCHANGED drvVars

\* main.py:358-360: Ctrl-C while asyncio.run is running the coroutine.  The
\* process is gone afterwards, and with it the coroutine and its browser.
Interrupt ==
    /\ pc \in {"run", "driver"} /\ args.entry = "cli"
    /\ Exit(1)
    /\ drv' = Idle /\ pw' = NoPw /\ lastOp' = NoOp
    /\ attempted' = {} /\ repeated' = {}
    /\ UNCHANGED <<args, fs, runner, validated, success, logs, outdir>>

\* main.py:347-356 and 361-363: save_session_log writes the session log file or
\* raises.
SaveSessionLog(save) ==
    /\ lastOp' = [op |-> "save_session_log", arg |-> "./logs", res |-> save]
    /\ logs' = IF save = "ok" THEN logs + 1 ELSE logs
    /\ UNCHANGED <<args, fs, runner, validated, success>>
    /\ UNCHANGED <<drv, pw, attempted, repeated, outdir>>

\* Variant: the process exits with status 0 whatever run_service returned.
MainFinishStatusZero ==
    /\ pc = "save"
    /\ \E save \in {"ok", "raise"} :
         /\ SaveSessionLog(save)
         /\ Exit(IF save = "ok" THEN 0 ELSE 1)

\* Variant: the session log is saved only after a successful run.
MainFinishLogsSuccessOnly ==
    /\ pc = "save"
    /\ IF success = "True"
       THEN \E save \in {"ok", "raise"} :
              /\ SaveSessionLog(save)
              /\ Exit(IF save = "ok" THEN 0 ELSE 1)
       ELSE /\ Exit(1)
            /\ UNCHANGED <<args, fs, runner, validated, success, logs>>
            /\ UNCHANGED drvVars

\* main.py:345-363: after run_service, save_session_log and the exit status.
\* An exception out of run_service skips save_session_log; it and an exception
\* of save_session_log reach `except Exception`.
MainFinish ==
    /\ pc = "save"
    /\ IF success = "raised"
       THEN /\ Exit(1)
            /\ UNCHANGED <<args, fs, runner, validated, success, logs>>
            /\ UNCHANGED drvVars
       ELSE \E save \in {"ok", "raise"} :
              /\ SaveSessionLog(save)
              /\ Exit(IF save = "ok" /\ success = "True" THEN 0 ELSE 1)

\* src/mock_automation.py:110-121: the script's own entry point.
MockScriptStart ==
    /\ pc = "main" /\ args.entry = "mock_script"
    /\ drv' = StartDriver(MockDriver)
    /\ pc' = "driver"
    /\ UNCHANGED <<args, fs, exit_status, runner, validated, success, logs>>
    /\ UNCHANGED <<pw, lastOp, attempted, repeated, outdir>>

MockScriptEnd ==
    /\ pc = "driver" /\ args.entry = "mock_script" /\ drv.pc = "done"
    /\ success' = drv.result
    /\ Exit(IF drv.result = "raised" THEN 1 ELSE 0)
    /\ UNCHANGED <<args, fs, runner, validated, logs>>
    /\ UNCHANGED drvVars

(***************************************************************************)
(* The drivers: one step per awaited operation                             *)
(***************************************************************************)
Running(names) == pc = "driver" /\ drv.name \in names

\* Operations whose record lasts for the whole invocation (a file is written
\* at a path, whatever page is loaded), or until the next page is loaded: the
\* loops begun, and the click on the variable that holds the submit button.
Lasting  == {"launch", "new_context", "new_page", "goto", "screenshot", "close",
             "write"}
PageOps  == Lasting \cup {"loop", "click_submit"}

\* The operations made on a handle are remembered while the code holds the
\* handle: the loop over the matched elements binds a new one each time, so
\* the first operation on an element forgets what followed it on the element
\* before.
Forgets(op) ==
    CASE op = "get_attribute" -> {"decode", "request"}
      [] OTHER -> {}

\* The operation is added to the repeated ones if it was attempted before.
Again(op, arg) == IF <<op, arg>> \in attempted THEN repeated \cup {op} ELSE repeated

\* An operation is attempted: it becomes the last one, and it is a repeat if
\* the same operation with the same argument was attempted before.
Op(op, arg, res) ==
    /\ lastOp' = [op |-> op, arg |-> arg, res |-> res]
    /\ repeated' = Again(op, arg)
    /\ attempted' = {a \in attempted : a[1] \notin Forgets(op)} \cup {<<op, arg>>}

\* wait_for_selector or query_selector_all with the idx-th selector of a
\* list, in the loop named op.  It is a repeat if the selector was tried on
\* this page before, or if the loop begins a second time on this page.  The
\* handles of earlier probes are gone, and what was done with them.
Probe(op, list, idx, res) ==
    /\ lastOp' = [op |-> op, arg |-> list[idx], res |-> res]
    /\ repeated' = IF idx = 1 /\ <<"loop", op>> \in attempted
                   THEN repeated \cup {op} ELSE Again(op, list[idx])
    /\ attempted' = {a \in attempted : a[1] \in PageOps \cup {op}}
                       \cup {<<op, list[idx]>>, <<"loop", op>>}

\* page.goto loads a page: what was attempted on the page before is forgotten.
OpGoto(url, res) ==
    /\ lastOp' = [op |-> "goto", arg |-> url, res |-> res]
    /\ repeated' = Again("goto", url)
    /\ attempted' = {a \in attempted : a[1] \in Lasting} \cup {<<"goto", url>>}

\* `with open(path, 'w') as f: f.write(...)`: the file is complete, or open
\* raised and nothing changed, or write raised and left a partial file (a
\* write fails at most MaxWriteFaults times in one invocation).
WriteOutcomes ==
    {"ok"} \cup (IF pw.write_faults < MaxWriteFaults
                 THEN {"open_raises", "write_raises"} ELSE {})

WriteFile(name, w) ==
    /\ outdir' = CASE w = "ok" -> (name :> "complete") @@ outdir
                   [] w = "write_raises" -> (name :> "partial") @@ outdir
                   [] OTHER -> outdir
    /\ pw' = CASE w = "ok" -> [pw EXCEPT !.writes = @ + 1]
               [] OTHER -> [pw EXCEPT !.write_faults = @ + 1]

\* The try block is left: finally closes the browser, then the function
\* returns `value`, or re-raises if value is "raised".
Leave(dr, value) == [dr EXCEPT !.pc = "close", !.pending = value]

\* An exception reaches `except Exception as e:` of the driver's try block,
\* whose handler takes a screenshot first.
Handler(dr) == [dr EXCEPT !.pc = "error_shot"]

\* A screenshot inside the try block, then the end of the block.
Shot(dr, which) == [dr EXCEPT !.pc = "shot", !.shot = which]

\* The function has returned or raised: its locals are gone, and nothing is
\* attempted any more.  What remains is the outcome, and which of the matched
\* elements was saved.
Returned(dr, value) ==
    [Idle EXCEPT !.name = dr.name, !.pc = "done", !.saved = dr.saved, !.result = value]

\* p.chromium.launch, outside the try block: an exception leaves the function.
Launch ==
    /\ Running(BrowserDrivers) /\ drv.pc = "launch"
    /\ \E r \in {"ok", "raise"} :
         /\ Op("launch", "chromium", r)
         /\ IF r = "ok"
            THEN /\ pw' = [pw EXCEPT !.launches = @ + 1, !.browsers = @ + 1]
                 /\ drv' = [drv EXCEPT !.pc = "new_context"]
            ELSE /\ pw' = [pw EXCEPT !.launches = @ + 1]
                 /\ drv' = Returned(drv, "raised")
    /\ UNCHANGED cliVars /\ UNCHANGED outdir

\* browser.new_context, outside the try block.
NewContext ==
    /\ Running(BrowserDrivers) /\ drv.pc = "new_context"
    /\ \E r \in {"ok", "raise"} :
         /\ Op("new_context", "browser", r)
         /\ IF r = "ok"
            THEN /\ pw' = [pw EXCEPT !.contexts = @ + 1]
                 /\ drv' = [drv EXCEPT !.pc = "new_page"]
            ELSE /\ UNCHANGED pw
                 /\ drv' = Returned(drv, "raised")
    /\ UNCHANGED cliVars /\ UNCHANGED outdir

\* context.new_page, outside the try block.
NewPage ==
    /\ Running(BrowserDrivers) /\ drv.pc = "new_page"
    /\ \E r \in {"ok", "raise"} :
         /\ Op("new_page", "context", r)
         /\ IF r = "ok"
            THEN /\ pw' = [pw EXCEPT !.pages = @ + 1]
                 /\ drv' = [drv EXCEPT !.pc = "goto"]
            ELSE /\ UNCHANGED pw
                 /\ drv' = Returned(drv, "raised")
    /\ UNCHANGED cliVars /\ UNCHANGED outdir

\* finally: await browser.close(), then the pending return or raise.
Close ==
    /\ Running(BrowserDrivers) /\ drv.pc = "close"
    /\ \E r \in {"ok", "raise"} :
         /\ lastOp' = [op |-> "close", arg |-> "browser", res |-> r]
         /\ repeated' = Again("close", "browser")
         /\ attempted' = {}
         /\ pw' = [pw EXCEPT !.closes = @ + 1]
         /\ drv' = Returned(drv, IF r = "ok" THEN drv.pending ELSE "raised")
    /\ UNCHANGED cliVars /\ UNCHANGED outdir

(***************************************************************************)
(* bing, craiyon and the four chat drivers                                 *)
(***************************************************************************)
SiteDrivers == ImageDrivers \cup ChatDrivers

\* Variant: `continue` skips a selector of the list.
NextSelSkip(dr, list, again, after) ==
    IF dr.sel + 1 < Len(list) THEN [dr EXCEPT !.sel = @ + 2, !.pc = again] ELSE after

\* Variant: a probe that raised is made once more with the same selector.
NextSelRetry(dr, list, again, after) ==
    IF dr.sel < Len(list) THEN [dr EXCEPT !.pc = again] ELSE after

\* `continue` of a loop over a selector list: the next selector, or `after`
\* when the list is exhausted.
NextSel(dr, list, again, after) ==
    IF dr.sel < Len(list) THEN [dr EXCEPT !.sel = @ + 1, !.pc = again] ELSE after

\* await page.goto(url, timeout=60000), then the fixed sleep
Goto ==
    /\ Running(SiteDrivers) /\ drv.pc = "goto"
    /\ \E r \in {"ok", "raise"} :
         /\ OpGoto(Cfg(drv.name).url, r)
         /\ drv' = IF r = "raise" THEN Handler(drv)
                   ELSE [drv EXCEPT !.sel = 1,
                            !.pc = IF Cfg(drv.name).login = << >>
                                   THEN "probe_input" ELSE "probe_login"]
    /\ UNCHANGED cliVars /\ UNCHANGED <<pw, outdir>>

\* openai_chat_completion.py:77-86: the login probe sets a flag nobody reads.
ProbeLogin ==
    /\ Running(SiteDrivers) /\ drv.pc = "probe_login"
    /\ LET list == Cfg(drv.name).login
           toInput == [drv EXCEPT !.sel = 1, !.pc = "probe_input"]
       IN  \E r \in {"found", "raise"} :
             /\ Probe("probe_login", list, drv.sel, r)
             /\ drv' = IF r = "found"
                       THEN [toInput EXCEPT !.needs_login = TRUE]
                       ELSE NextSel(drv, list, "probe_login", toInput)
    /\ UNCHANGED cliVars /\ UNCHANGED <<pw, outdir>>

\* for selector in input_selectors: try wait_for_selector ... except: continue
ProbeInput ==
    /\ Running(SiteDrivers) /\ drv.pc = "probe_input"
    /\ LET list == Cfg(drv.name).input
       IN  \E r \in {"found", "raise"} :
             /\ Probe("probe_input", list, drv.sel, r)
             /\ drv' = IF r = "found"
                       THEN [drv EXCEPT !.input_field = "element", !.pc = "click_input"]
                       ELSE NextSel(drv, list, "probe_input", Shot(drv, "shot_input"))
    /\ UNCHANGED cliVars /\ UNCHANGED <<pw, outdir>>

\* await input_field.click()
ClickInput ==
    /\ Running(SiteDrivers) /\ drv.pc = "click_input"
    /\ \E r \in {"ok", "raise"} :
         /\ Op("click_input", "input_field", r)
         /\ drv' = IF r = "ok" THEN [drv EXCEPT !.pc = "fill"] ELSE Handler(drv)
    /\ UNCHANGED cliVars /\ UNCHANGED <<pw, outdir>>

\* Variant: the button is looked for although fill raised.
FillUnchecked ==
    /\ Running(SiteDrivers) /\ drv.pc = "fill"
    /\ \E r \in {"ok", "raise"} :
         /\ Op("fill", "input_field", r)
         /\ pw' = IF r = "ok" THEN [pw EXCEPT !.fills = @ + 1] ELSE pw
         /\ drv' = [drv EXCEPT !.sel = 1, !.pc = "probe_submit"]
    /\ UNCHANGED cliVars /\ UNCHANGED outdir

\* await input_field.fill(prompt)
Fill ==
    /\ Running(SiteDrivers) /\ drv.pc = "fill"
    /\ \E r \in {"ok", "raise"} :
         /\ Op("fill", "input_field", r)
         /\ pw' = IF r = "ok" THEN [pw EXCEPT !.fills = @ + 1] ELSE pw
         /\ drv' = IF r = "ok" THEN [drv EXCEPT !.sel = 1, !.pc = "probe_submit"]
                   ELSE Handler(drv)
    /\ UNCHANGED cliVars /\ UNCHANGED outdir

\* for selector in generate_selectors / send_selectors / submit_selectors
ProbeSubmit ==
    /\ Running(SiteDrivers) /\ drv.pc = "probe_submit"
    /\ LET list == Cfg(drv.name).submit
       IN  \E r \in {"found", "raise"} :
             /\ Probe("probe_submit", list, drv.sel, r)
             /\ drv' = IF r = "found"
                       THEN [drv EXCEPT !.button = "element", !.pc = "click_submit"]
                       ELSE NextSel(drv, list, "probe_submit", Shot(drv, "shot_submit"))
    /\ UNCHANGED cliVars /\ UNCHANGED <<pw, outdir>>

\* await generate_button.click(), then the fixed sleep
ClickSubmit ==
    /\ Running(SiteDrivers) /\ drv.pc = "click_submit"
    /\ \E r \in {"ok", "raise"} :
         /\ Op("click_submit", "button", r)
         /\ IF r = "ok"
            THEN /\ pw' = [pw EXCEPT !.clicks = @ + 1]
                 /\ drv' = [drv EXCEPT !.sel = 1, !.pc = "query"]
            ELSE /\ UNCHANGED pw
                 /\ drv' = Handler(drv)
    /\ UNCHANGED cliVars /\ UNCHANGED outdir

\* Variant: no chat driver takes the screenshot once a selector matched.
AfterResponsesAsOpenai(dr, response_found) ==
    IF response_found THEN Leave(dr, "False") ELSE Shot(dr, "shot_result")

\* After the chat drivers' loop over response_selectors: openai takes the
\* screenshot only if no selector matched (response_found), the others always.
AfterResponses(dr, response_found) ==
    IF dr.name = "openai_chat_automation" /\ response_found
    THEN Leave(dr, "False")
    ELSE Shot(dr, "shot_result")

\* bing/craiyon: images = await page.query_selector_all(selector)
QueryImages ==
    /\ Running(ImageDrivers) /\ drv.pc = "query"
    /\ LET list == Cfg(drv.name).result
           none == NextSel(drv, list, "query", Shot(drv, "shot_result"))
       IN  \/ Probe("query", list, drv.sel, "raise") /\ drv' = none
           \/ Probe("query", list, drv.sel, "empty") /\ drv' = none
           \/ \E n \in 1..MaxElems :
                /\ Probe("query", list, drv.sel, "found")
                /\ drv' = [drv EXCEPT !.elems = [x \in 1..n |-> "img"], !.e = 1,
                                      !.pc = "get_attribute"]
    /\ UNCHANGED cliVars /\ UNCHANGED <<pw, outdir>>

\* The slice of the matched elements a driver scans.
Scanned(dr) == SliceIdx(Len(dr.elems), Cfg(dr.name).take)

\* The element at hand, as the argument of an operation, and the number that
\* enumerate gives it in the output file's name (i + 1).
ElemName(dr) == ToString(Scanned(dr)[dr.e])

FileIndex(dr) == ToString(dr.e)

\* `for i, img in enumerate(generated_images[:3])` moves on; after the loop
\* the try block ends without a screenshot.
NextImage(dr) ==
    IF dr.e < Len(Scanned(dr)) THEN [dr EXCEPT !.e = @ + 1, !.pc = "get_attribute"]
    ELSE Leave(dr, "False")

\* img_src = await img.get_attribute('src'), and the test on it
GetAttribute ==
    /\ Running(ImageDrivers) /\ drv.pc = "get_attribute"
    /\ \E r \in {"raise", "unusable", "usable"} :
         /\ Op("get_attribute", ElemName(drv), r)
         /\ drv' = IF r = "usable" THEN [drv EXCEPT !.pc = "request"] ELSE NextImage(drv)
    /\ UNCHANGED cliVars /\ UNCHANGED <<pw, outdir>>

\* response = await context.request.get(img_src); status; body; len > 1000
RequestGet ==
    /\ Running(ImageDrivers) /\ drv.pc = "request"
    /\ \E r \in {"raise", "status", "small", "image"} :
         /\ Op("request", ElemName(drv), r)
         /\ drv' = IF r = "image" THEN [drv EXCEPT !.pc = "write"] ELSE NextImage(drv)
    /\ UNCHANGED cliVars /\ UNCHANGED <<pw, outdir>>

\* with open(output_path, 'wb') as f: f.write(image_data); return True
WriteImage ==
    /\ Running(ImageDrivers) /\ drv.pc = "write"
    /\ LET name == Cfg(drv.name).out \o FileIndex(drv) \o ".jpg"
       IN  \E w \in WriteOutcomes :
             /\ Op("write", name, w)
             /\ WriteFile(name, w)
             /\ drv' = IF w = "ok"
                       THEN [Leave(drv, "True") EXCEPT !.saved = Scanned(drv)[drv.e]]
                       ELSE NextImage(drv)
    /\ UNCHANGED cliVars

\* chat: the sleep, then response_elements = await
\* page.query_selector_all(selector); an element's text is long enough to be
\* a response, or short (or empty).
QueryResponses ==
    /\ Running(ChatDrivers) /\ drv.pc = "query"
    /\ LET list == Cfg(drv.name).result
           none == NextSel(drv, list, "query", AfterResponses(drv, FALSE))
       IN  \/ Probe("query", list, drv.sel, "raise") /\ drv' = none
           \/ Probe("query", list, drv.sel, "empty") /\ drv' = none
           \/ \E n \in 1..MaxElems : \E texts \in [1..n -> {"long", "short"}] :
                /\ Probe("query", list, drv.sel, "found")
                /\ drv' = [drv EXCEPT !.elems = texts, !.e = 1, !.pc = "text_content"]
    /\ UNCHANGED cliVars /\ UNCHANGED <<pw, outdir>>

\* `for element in response_elements[-2:]` moves on; after it, `break`.
NextElement(dr) ==
    IF dr.e < Len(Scanned(dr)) THEN [dr EXCEPT !.e = @ + 1, !.pc = "text_content"]
    ELSE AfterResponses(dr, TRUE)

\* text_content = await element.text_content(), and the length test
TextContent ==
    /\ Running(ChatDrivers) /\ drv.pc = "text_content"
    /\ LET i == Scanned(drv)[drv.e]
       IN  \/ Op("text_content", ElemName(drv), "raise") /\ drv' = NextElement(drv)
           \/ /\ Op("text_content", ElemName(drv), drv.elems[i])
              /\ drv' = IF drv.elems[i] = "long"
                        THEN [drv EXCEPT !.pc = "write"] ELSE NextElement(drv)
    /\ UNCHANGED cliVars /\ UNCHANGED <<pw, outdir>>

\* Variant: after the response is saved the loop goes on to the next element.
WriteTextGoesOn ==
    /\ Running(ChatDrivers) /\ drv.pc = "write"
    /\ \E w \in WriteOutcomes :
         /\ Op("write", Cfg(drv.name).out, w)
         /\ WriteFile(Cfg(drv.name).out, w)
         /\ drv' = NextElement(drv)
    /\ UNCHANGED cliVars

\* with open(output_file, 'w', encoding='utf-8') as f: ...; return True
WriteText ==
    /\ Running(ChatDrivers) /\ drv.pc = "write"
    /\ \E w \in WriteOutcomes :
         /\ Op("write", Cfg(drv.name).out, w)
         /\ WriteFile(Cfg(drv.name).out, w)
         /\ drv' = IF w = "ok"
                   THEN [Leave(drv, "True") EXCEPT !.saved = Scanned(drv)[drv.e]]
                   ELSE NextElement(drv)
    /\ UNCHANGED cliVars

\* await page.screenshot(path="./debug/..._no_....png") inside the try block
Screenshot ==
    /\ Running(SiteDrivers) /\ drv.pc = "shot"
    /\ \E r \in {"ok", "raise"} :
         /\ Op("screenshot", Cfg(drv.name)[drv.shot], r)
         /\ drv' = IF r = "ok" THEN Leave(drv, "False") ELSE Handler(drv)
    /\ UNCHANGED cliVars /\ UNCHANGED <<pw, outdir>>

\* except Exception as e: await page.screenshot(path=..._error.png); return False
ErrorScreenshot ==
    /\ Running(SiteDrivers) /\ drv.pc = "error_shot"
    /\ \E r \in {"ok", "raise"} :
         /\ Op("screenshot", Cfg(drv.name).shot_error, r)
         /\ drv' = Leave(drv, IF r = "ok" THEN "False" ELSE "raised")
    /\ UNCHANGED cliVars /\ UNCHANGED <<pw, outdir>>

(***************************************************************************)
(* deepai_retry_automation                                                 *)
(***************************************************************************)
\* Variant: the URLs after the first are never tried.
DNextUrlGivesUp(dr) == Leave(dr, "False")

\* Variant: a URL that failed is tried again until it works.
DNextUrlAgain(dr) == [dr EXCEPT !.pc = "goto"]

\* Variant: every URL is tried in a browser of its own.
DNextUrlNewBrowser(dr) ==
    IF dr.url < Len(deepai_urls) THEN [dr EXCEPT !.url = @ + 1, !.pc = "launch"]
    ELSE Leave(dr, "False")

\* `continue` of the loop over deepai_urls, also from its `except Exception`;
\* after the last URL the try block ends.
DNextUrl(dr) ==
    IF dr.url < Len(deepai_urls) THEN [dr EXCEPT !.url = @ + 1, !.pc = "goto"]
    ELSE Leave(dr, "False")

\* deepai_image_alteration.py:153 (and 145, 148 before it): the breaks that
\* end the URL loop once an input field was found.
DBreak(dr) == Leave(dr, "False")

\* `except: continue` of the loop over submit_selectors
DNextSubmit(dr) == NextSel(dr, deepai_submit_selectors, "probe_submit", DBreak(dr))

\* `except: continue` of the loop over result_selectors
DNextResultSel(dr) ==
    IF dr.img_sel < Len(deepai_result_selectors)
    THEN [dr EXCEPT !.img_sel = @ + 1, !.pc = "query"]
    ELSE DBreak(dr)

\* `for i, img in enumerate(images[:2])` moves on; after it, `break`.
DNextImage(dr) ==
    IF dr.e < Len(Scanned(dr)) THEN [dr EXCEPT !.e = @ + 1, !.pc = "get_attribute"]
    ELSE DBreak(dr)

\* await page.goto(url, timeout=30000); input_field = None
DGoto ==
    /\ Running({DeepaiDriver}) /\ drv.pc = "goto"
    /\ \E r \in {"ok", "raise"} :
         /\ OpGoto(deepai_urls[drv.url], r)
         /\ drv' = IF r = "ok"
                   THEN [drv EXCEPT !.sel = 1, !.input_field = None, !.pc = "probe_input"]
                   ELSE DNextUrl(drv)
    /\ UNCHANGED cliVars /\ UNCHANGED <<pw, outdir>>

\* deepai_image_alteration.py:61-71: without an input field the next URL
DProbeInput ==
    /\ Running({DeepaiDriver}) /\ drv.pc = "probe_input"
    /\ LET list == deepai_input_selectors
       IN  \E r \in {"found", "raise"} :
             /\ Probe("probe_input", list, drv.sel, r)
             /\ drv' = IF r = "found"
                       THEN [drv EXCEPT !.input_field = "element", !.pc = "click_input"]
                       ELSE NextSel(drv, list, "probe_input", DNextUrl(drv))
    /\ UNCHANGED cliVars /\ UNCHANGED <<pw, outdir>>

DClickInput ==
    /\ Running({DeepaiDriver}) /\ drv.pc = "click_input"
    /\ \E r \in {"ok", "raise"} :
         /\ Op("click_input", "input_field", r)
         /\ drv' = IF r = "ok" THEN [drv EXCEPT !.pc = "fill"] ELSE DNextUrl(drv)
    /\ UNCHANGED cliVars /\ UNCHANGED <<pw, outdir>>

DFill ==
    /\ Running({DeepaiDriver}) /\ drv.pc = "fill"
    /\ \E r \in {"ok", "raise"} :
         /\ Op("fill", "input_field", r)
         /\ pw' = IF r = "ok" THEN [pw EXCEPT !.fills = @ + 1] ELSE pw
         /\ drv' = IF r = "ok" THEN [drv EXCEPT !.sel = 1, !.pc = "probe_submit"]
                   ELSE DNextUrl(drv)
    /\ UNCHANGED cliVars /\ UNCHANGED outdir

\* deepai_image_alteration.py:89-93: the probe of one submit selector
DProbeSubmit ==
    /\ Running({DeepaiDriver}) /\ drv.pc = "probe_submit"
    /\ LET list == deepai_submit_selectors
       IN  \E r \in {"found", "raise"} :
             /\ Probe("probe_submit", list, drv.sel, r)
             /\ drv' = IF r = "found"
                       THEN [drv EXCEPT !.button = "element", !.pc = "click_submit"]
                       ELSE DNextSubmit(drv)
    /\ UNCHANGED cliVars /\ UNCHANGED <<pw, outdir>>

\* await submit_btn.click() inside the selector's try: if it raises, the
\* bare except goes on to the next submit selector.  After a click that
\* worked comes the wait for the generation.
DClickSubmit ==
    /\ Running({DeepaiDriver}) /\ drv.pc = "click_submit"
    /\ \E r \in {"ok", "raise"} :
         /\ Op("click_submit", "button", r)
         /\ IF r = "ok"
            THEN /\ pw' = [pw EXCEPT !.clicks = @ + 1]
                 /\ drv' = [drv EXCEPT !.pc = "sleep"]
            ELSE /\ UNCHANGED pw
                 /\ drv' = DNextSubmit(drv)
    /\ UNCHANGED cliVars /\ UNCHANGED outdir

\* await asyncio.sleep(20), after the click and inside the selector's try.
\* It raises only when the running task is cancelled (asyncio.run cancels it
\* on SIGINT): CancelledError is caught by the bare except like any other
\* exception, and the loop goes on to the next submit selector.  After the
\* wait the loop is left by break or return, and `selector` is not read
\* again.
DSleep ==
    /\ Running({DeepaiDriver}) /\ drv.pc = "sleep"
    /\ \E r \in {"ok"} \cup (IF pw.cancels < MaxCancels THEN {"raise"} ELSE {}) :
         /\ Op("sleep", "generation", r)
         /\ IF r = "ok"
            THEN /\ UNCHANGED pw
                 /\ drv' = [drv EXCEPT !.sel = 1, !.img_sel = 1, !.pc = "query"]
            ELSE /\ pw' = [pw EXCEPT !.cancels = @ + 1]
                 /\ drv' = DNextSubmit(drv)
    /\ UNCHANGED cliVars /\ UNCHANGED outdir

\* images = await page.query_selector_all(img_sel)
DQueryImages ==
    /\ Running({DeepaiDriver}) /\ drv.pc = "query"
    /\ LET list == deepai_result_selectors
       IN  \/ Probe("query", list, drv.img_sel, "raise") /\ drv' = DNextResultSel(drv)
           \/ Probe("query", list, drv.img_sel, "empty") /\ drv' = DNextResultSel(drv)
           \/ \E n \in 1..MaxElems :
                /\ Probe("query", list, drv.img_sel, "found")
                /\ drv' = [drv EXCEPT !.elems = [x \in 1..n |-> "img"], !.e = 1,
                                      !.pc = "get_attribute"]
    /\ UNCHANGED cliVars /\ UNCHANGED <<pw, outdir>>

\* img_src = await img.get_attribute('src'): it raises, or is empty, or a
\* data: URL, or another URL.
DGetAttribute ==
    /\ Running({DeepaiDriver}) /\ drv.pc = "get_attribute"
    /\ \E r \in {"raise", "empty", "data", "url"} :
         /\ Op("get_attribute", ElemName(drv), r)
         /\ drv' = CASE r = "raise" -> DNextResultSel(drv)
                     [] r = "empty" -> DNextImage(drv)
                     [] r = "data"  -> [drv EXCEPT !.pc = "decode"]
                     [] r = "url"   -> [drv EXCEPT !.pc = "request"]
    /\ UNCHANGED cliVars /\ UNCHANGED <<pw, outdir>>

\* header, data = img_src.split(',', 1); base64.b64decode(data); len > 5000
DDecode ==
    /\ Running({DeepaiDriver}) /\ drv.pc = "decode"
    /\ \E r \in {"raise", "small", "image"} :
         /\ Op("decode", ElemName(drv), r)
         /\ drv' = CASE r = "raise" -> DNextResultSel(drv)
                     [] r = "small" -> DNextImage(drv)
                     [] r = "image" -> [drv EXCEPT !.pc = "write_png"]
    /\ UNCHANGED cliVars /\ UNCHANGED <<pw, outdir>>

\* response = await context.request.get(img_src); status; body; len > 5000
DRequestGet ==
    /\ Running({DeepaiDriver}) /\ drv.pc = "request"
    /\ \E r \in {"raise", "status", "small", "image"} :
         /\ Op("request", ElemName(drv), r)
         /\ drv' = CASE r = "raise" -> DNextResultSel(drv)
                     [] r \in {"status", "small"} -> DNextImage(drv)
                     [] r = "image" -> [drv EXCEPT !.pc = "write_jpg"]
    /\ UNCHANGED cliVars /\ UNCHANGED <<pw, outdir>>

\* with open(output_path, 'wb') as f: f.write(image_data); return True
DWriteImage ==
    /\ Running({DeepaiDriver}) /\ drv.pc \in {"write_png", "write_jpg"}
    /\ LET name == Cfg(drv.name).out \o FileIndex(drv)
                      \o (IF drv.pc = "write_png" THEN ".png" ELSE ".jpg")
       IN  \E w \in WriteOutcomes :
             /\ Op("write", name, w)
             /\ WriteFile(name, w)
             /\ drv' = IF w = "ok"
                       THEN [Leave(drv, "True") EXCEPT !.saved = Scanned(drv)[drv.e]]
                       ELSE DNextResultSel(drv)
    /\ UNCHANGED cliVars

(***************************************************************************)
(* mock_image_automation                                                   *)
(***************************************************************************)
MockDone(value) == drv' = [drv EXCEPT !.pc = "done", !.result = value]

\* mock_automation.py:34-35: log_dir.mkdir, before the try block
MockMkdir ==
    /\ Running({MockDriver}) /\ drv.pc = "mock_mkdir"
    /\ \E r \in {"ok", "raise"} :
         /\ Op("mkdir", "./data/logs", r)
         /\ IF r = "ok" THEN drv' = [drv EXCEPT !.pc = "mock_exists"]
            ELSE MockDone("raised")
    /\ UNCHANGED cliVars /\ UNCHANGED <<pw, outdir>>

\* mock_automation.py:38-40
MockExists ==
    /\ Running({MockDriver}) /\ drv.pc = "mock_exists"
    /\ \E st \in Exists(TRUE) :
         /\ fs' = st
         /\ Op("exists", args.input, Bool(st # "absent"))
         /\ IF st = "absent" THEN MockDone("False")
            ELSE drv' = [drv EXCEPT !.pc = "mock_open"]
    /\ UNCHANGED <<args, pc, exit_status, runner, validated, success, logs>>
    /\ UNCHANGED <<pw, outdir>>

\* The image files an input path may hold: a format, a mode and a size
\* (width, height).  A JPEG file has no alpha channel and no palette.
ImageModes == {"RGB", "RGBA", "L", "P"}
ImageSizes == {<<1, 1>>, <<4, 3>>}
JpegModes  == {"RGB", "L", "CMYK"}
ImageFiles ==
    { f \in [format : {"JPEG", "PNG"}, mode : ImageModes, size : ImageSizes] :
        f.format = "JPEG" => f.mode \in JpegModes }

\* mock_automation.py:49-50: if img.mode != 'RGB': img = img.convert('RGB');
\* the copy has the size of the image and no file format.
ConvertRGB(img) ==
    IF img.mode # "RGB" THEN [format |-> None, mode |-> "RGB", size |-> img.size]
    ELSE img

\* Variant: the image is also scaled down to half its size.
TransformHalved(img) ==
    [format |-> None, mode |-> img.mode,
     size |-> <<(img.size[1] + 1) \div 2, (img.size[2] + 1) \div 2>>]

\* mock_automation.py:56-71: ImageEnhance.Color, Contrast, the GaussianBlur
\* and UnsharpMask filters, ImageEnhance.Brightness: each returns a new image
\* of the same mode and size.
Transform(img) == [format |-> None, mode |-> img.mode, size |-> img.size]

\* final_img.save(path, 'JPEG', quality=90): the file written.
SaveJPEG(img) == [format |-> "JPEG", mode |-> img.mode, size |-> img.size]

\* mock_automation.py:47-71: Image.open, convert and the PIL filters; they
\* raise if the file is no image, and may raise reading one.
MockOpen ==
    /\ Running({MockDriver}) /\ drv.pc = "mock_open"
    /\ \/ /\ fs' = "garbage"
          /\ Op("open", args.input, "raise")
          /\ MockDone("False")
       \/ \E file \in ImageFiles : \E r \in {"ok", "raise"} :
            /\ fs' = "image"
            /\ Op("open", args.input, r)
            /\ IF r = "ok"
               THEN drv' = [drv EXCEPT !.original = file,
                                       !.img = ConvertRGB(file),
                                       !.final_img = Transform(ConvertRGB(file)),
                                       !.pc = "mock_save"]
               ELSE MockDone("False")
    /\ UNCHANGED <<args, pc, exit_status, runner, validated, success, logs>>
    /\ UNCHANGED <<pw, outdir>>

\* mock_automation.py:75: final_img.save(altered_image_path, 'JPEG', quality=90);
\* the JPEG encoder raises for a mode it cannot write.
MockSave ==
    /\ Running({MockDriver}) /\ drv.pc = "mock_save"
    /\ \E w \in WriteOutcomes :
         /\ w = "ok" => drv.final_img.mode \in JpegModes
         /\ Op("write", "mock-altered.jpg", w)
         /\ WriteFile("mock-altered.jpg", w)
         /\ IF w = "ok"
            THEN drv' = [drv EXCEPT !.altered = SaveJPEG(drv.final_img),
                                    !.pc = "mock_log"]
            ELSE MockDone("False")
    /\ UNCHANGED cliVars

\* mock_automation.py:78-104: the automation log with img.size and
\* final_img.size, then return True
MockLog ==
    /\ Running({MockDriver}) /\ drv.pc = "mock_log"
    /\ \E r \in {"ok", "raise"} :
         /\ Op("write_log", "mock_automation_log.json", r)
         /\ drv' = [drv EXCEPT
                      !.pc = "done",
                      !.result = IF r = "ok" THEN "True" ELSE "False",
                      !.log = IF r = "ok"
                              THEN [original_size |-> drv.img.size,
                                    final_size |-> drv.final_img.size]
                              ELSE @]
    /\ UNCHANGED cliVars /\ UNCHANGED <<pw, outdir>>

(***************************************************************************)
(* The specification                                                       *)
(***************************************************************************)
Next ==
    \/ ListServices \/ CreateRunner \/ Validate \/ ValidateInputCall
    \/ RunServiceCall \/ RunServiceReturn \/ Interrupt \/ MainFinish
    \/ MockScriptStart \/ MockScriptEnd
    \/ Launch \/ NewContext \/ NewPage \/ Close
    \/ Goto \/ ProbeLogin \/ ProbeInput \/ ClickInput \/ Fill
    \/ ProbeSubmit \/ ClickSubmit
    \/ QueryImages \/ GetAttribute \/ RequestGet \/ WriteImage
    \/ QueryResponses \/ TextContent \/ WriteText
    \/ Screenshot \/ ErrorScreenshot
    \/ DGoto \/ DProbeInput \/ DClickInput \/ DFill \/ DProbeSubmit \/ DClickSubmit \/ DSleep
    \/ DQueryImages \/ DGetAttribute \/ DDecode \/ DRequestGet \/ DWriteImage
    \/ MockMkdir \/ MockExists \/ MockOpen \/ MockSave \/ MockLog

Spec == Init /\ [][Next]_vars

\* The steps of a driver invocation: each awaits one operation of the
\* browser, of the network or of the file system.
DriverNext ==
    \/ Launch \/ NewContext \/ NewPage \/ Close
    \/ Goto \/ ProbeLogin \/ ProbeInput \/ ClickInput \/ Fill
    \/ ProbeSubmit \/ ClickSubmit
    \/ QueryImages \/ GetAttribute \/ RequestGet \/ WriteImage
    \/ QueryResponses \/ TextContent \/ WriteText
    \/ Screenshot \/ ErrorScreenshot
    \/ DGoto \/ DProbeInput \/ DClickInput \/ DFill \/ DProbeSubmit \/ DClickSubmit \/ DSleep
    \/ DQueryImages \/ DGetAttribute \/ DDecode \/ DRequestGet \/ DWriteImage
    \/ MockMkdir \/ MockExists \/ MockOpen \/ MockSave \/ MockLog

\* Every operation a driver awaits returns, raises or times out (the
\* timeout= of wait_for_selector and goto, the fixed asyncio.sleep), so a
\* driver that can take a step takes one.
FairSpec == Spec /\ WF_vars(DriverNext)

(***************************************************************************)
(* Properties                                                              *)
(***************************************************************************)
Validated == validated = [service |-> "True", input |-> "True"]

\* The last entry of the runner's session log.
LastEntry == runner.session_log[Len(runner.session_log)]

\* C1: a CLI process whose arguments parsed ends with status 0 or 1, and with
\* 0 exactly when --list-services was given, or when both validations passed,
\* run_service returned True and the session log was saved.
C1_ExitStatus ==
    (pc = "exited" /\ args.entry = "cli") =>
        /\ exit_status \in {0, 1}
        /\ exit_status = 0 <=>
             \/ args.list_services
             \/ Validated /\ success = "True" /\ logs = 1

C1_Witness ==
    /\ pc = "exited" /\ args.entry = "cli" /\ ~args.list_services
    /\ Validated /\ success = "True" /\ logs = 1 /\ exit_status = 0

\* C2: a site driver that has ended has returned True or False, whichever of
\* its operations failed; no exception left it.
C2_DriversReturnBool ==
    (drv.name \in BrowserDrivers /\ drv.pc = "done") => drv.result \in {"True", "False"}

\* C3: run_service returns True or False for a validated service; when the
\* import, the lookup of the function, the driver or the collection of the
\* output files raised, the last session-log entry is 'automation_error' and
\* the value returned is False.
C3_RunServiceCatches ==
    (args.entry = "cli" /\ success # None) =>
        /\ Validated
        /\ success \in {"True", "False"}
        /\ (\/ ImportResult(AvailableServices(args.mode)[args.service])
                  \in {"ModuleNotFoundError", "AttributeError"}
            \/ drv.result = "raised"
            \/ drv.result = "True" /\ success = "False")
              => LastEntry = "automation_error"
        /\ LastEntry = "automation_error" => success = "False"

C3_Witness ==
    /\ args.entry = "cli" /\ pc = "save"
    /\ drv.result = "raised" /\ success = "False" /\ LastEntry = "automation_error"

\* C4: the (module, function) pair of a service that passed validate_service
\* resolves: the module is in src and defines the function.
C4_DispatchResolves ==
    validated.service = "True" =>
        LET service_info == AvailableServices(args.mode)[args.service]
        IN  ImportResult(service_info) = service_info.function

\* C5: with mode image, service mock and an input file that exists,
\* run_service returns True with a last entry 'automation_success', and no
\* browser was launched.
C5_MockAlwaysWorks ==
    (/\ args.entry = "cli" /\ args.mode = "image" /\ args.service = "mock"
     /\ fs \in {"present", "image"} /\ success # None)
        => (success = "True" /\ LastEntry = "automation_success" /\ pw.launches = 0)

\* The operations a driver makes on its page.
OnPage ==
    { "goto", "probe_login", "probe_input", "click_input", "fill", "probe_submit",
      "click_submit", "query", "get_attribute", "text_content", "screenshot" }

\* C6: a driver invocation launches one browser and makes one context and one
\* page in it, never a second of any; every navigation and probe happens when
\* exactly one browser, one context and one page exist.
C6_SingleBrowser ==
    /\ pw.launches <= 1 /\ pw.browsers <= 1 /\ pw.contexts <= 1 /\ pw.pages <= 1
    /\ lastOp.op \in OnPage => (pw.browsers = 1 /\ pw.contexts = 1 /\ pw.pages = 1)
    /\ (drv.name \in BrowserDrivers /\ drv.pc = "done") => pw.launches = 1

C6_Witness ==
    /\ drv.name = DeepaiDriver /\ lastOp.op = "goto" /\ lastOp.arg = deepai_urls[3]
    /\ pw.browsers = 1 /\ pw.pages = 1

\* A probe of the loop for the input field or for the submit button: the
\* selectors are tried in list order, each after the one before it raised; the
\* first match is bound and used, and without a match the failure branch is
\* taken.  With `strict`, nothing was matched before the probe; without it,
\* deepai_retry_automation's submit loop may go on after a click that raised.
ProbeStep(op, strict) ==
    (pc = "driver" /\ pc' = "driver" /\ drv.pc = op /\ lastOp'.op = op) =>
        LET list == IF op = "probe_input" THEN Cfg(drv.name).input
                    ELSE Cfg(drv.name).submit
            handle(dr) == IF op = "probe_input" THEN dr.input_field ELSE dr.button
            use == IF op = "probe_input" THEN "click_input" ELSE "click_submit"
            lenient == ~strict /\ drv.name = DeepaiDriver /\ op = "probe_submit"
            clickRaised == lastOp = [op |-> "click_submit", arg |-> "button",
                                     res |-> "raise"]
            waitRaised == lastOp = [op |-> "sleep", arg |-> "generation",
                                    res |-> "raise"]
        IN  /\ lastOp'.arg = list[drv.sel]
            /\ IF drv.sel = 1 THEN lastOp.op \notin {op, use}
               ELSE \/ lastOp = [op |-> op, arg |-> list[drv.sel - 1], res |-> "raise"]
                    \/ lenient /\ (clickRaised \/ waitRaised)
            /\ handle(drv) = None \/ lenient
            /\ lastOp'.res = "found" => (handle(drv') = "element" /\ drv'.pc = use)
            /\ lastOp'.res = "raise" =>
                 /\ handle(drv') = handle(drv)
                 /\ IF drv.sel < Len(list)
                    THEN drv'.pc = op /\ drv'.sel = drv.sel + 1
                    ELSE drv'.pc \in {"shot", "goto", "close"}

\* C7 as stated: in every driver a probe follows only a probe that raised, and
\* no selector is probed once one has matched.
C7_FirstMatchOnly ==
    [][ProbeStep("probe_input", TRUE) /\ ProbeStep("probe_submit", TRUE)]_vars

\* C7: the selectors for the input field and for the submit button are probed
\* in list order, the next one when a probe raised; the first match is used,
\* and without a match the failure branch is taken.  No selector is probed
\* after a match, except in deepai_retry_automation's submit loop when the
\* click on the matched button, or the wait that follows the click, raised.
C7_ProbeOrder ==
    [][ProbeStep("probe_input", FALSE) /\ ProbeStep("probe_submit", FALSE)]_vars

C7_Witness ==
    /\ drv.name \in SiteDrivers /\ drv.pc = "click_submit" /\ drv.button = "element"
    /\ lastOp = [op |-> "probe_submit", arg |-> Cfg(drv.name).submit[3], res |-> "found"]

C9_OneSessionLog ==
    (pc = "exited" /\ args.entry = "cli") =>
        logs = IF Validated /\ success \in {"True", "False"} THEN 1 ELSE 0

\* C9: a CLI run that passed both validations and whose run_service returned
\* calls save_session_log before it exits, and has written one session log
\* unless that call raised; every other run has written none, and none is
\* written before run_service has returned.
C9_SessionLogSaved ==
    /\ logs \in {0, 1}
    /\ logs = 1 => (pc = "exited" /\ Validated /\ success \in {"True", "False"})
    /\ (pc = "exited" /\ args.entry = "cli" /\ Validated /\ success \in {"True", "False"})
         => /\ lastOp.op = "save_session_log"
            /\ logs = 1 <=> lastOp.res = "ok"
            /\ logs = 0 => exit_status = 1

C9_Witness ==
    /\ pc = "exited" /\ args.entry = "cli" /\ success = "False" /\ logs = 1

\* C10: validate_service returns True exactly when the service is a key of
\* IMAGE_SERVICES in image mode, of CHAT_SERVICES in any other mode.
C10_ValidateService ==
    validated.service # "not_called" =>
        (validated.service = "True" <=>
            \/ args.mode = "image" /\ args.service \in {"mock", "bing", "craiyon", "deepai"}
            \/ args.mode # "image"
               /\ args.service \in {"openai", "claude", "gemini", "perplexity"})

C10_Witness ==
    /\ args.mode = "text" /\ args.service \in DOMAIN IMAGE_SERVICES
    /\ validated.service = "False" /\ exit_status = 1

\* C11: for a service that passed validate_service, validate_input returns
\* False exactly when the mode is image, the service's entry requires an input
\* file, and the runner's input file is None or does not exist.
C11_ValidateInput ==
    validated.input # "not_called" =>
        /\ validated.service = "True"
        /\ validated.input = "False" <=>
             /\ args.mode = "image"
             /\ AvailableServices(args.mode)[args.service].requires_input
             /\ runner.input_file = None \/ fs = "absent"
        /\ (args.mode # "image" \/ args.service \in {"bing", "craiyon", "deepai"})
             => validated.input = "True"

C11_Witness ==
    /\ validated.input = "False" /\ exit_status = 1
    /\ args.service = "mock" /\ runner.input_file = "./custom.jpg" /\ fs = "absent"

\* C12: with --list-services the process exits with status 0 and nothing
\* else happens: no AutomationRunner is constructed (so no output directory
\* is made), the input file is not looked at, nothing is validated, no driver
\* runs and no session log is written, whatever the other flags are.
C12_ListServicesOnly ==
    (args.entry = "cli" /\ args.list_services) =>
        /\ ~runner.constructed /\ runner.session_log = << >>
        /\ fs = "unobserved"
        /\ validated = [service |-> "not_called", input |-> "not_called"]
        /\ success = None /\ logs = 0
        /\ drv = Idle /\ pw = NoPw /\ lastOp = NoOp /\ outdir = << >>
        /\ pc \in {"main", "exited"}
        /\ pc = "exited" => exit_status = 0

C12_Witness ==
    /\ args.list_services /\ args.service = "dalle" /\ args.mode = "text"
    /\ pc = "exited" /\ exit_status = 0 /\ ~runner.constructed

\* Whether the loop a driver is in has another item after the current one.
More(dr) ==
    CASE dr.pc = "probe_login"  -> dr.sel < Len(Cfg(dr.name).login)
      [] dr.pc = "probe_input"  -> dr.sel < Len(Cfg(dr.name).input)
      [] dr.pc = "probe_submit" -> dr.sel < Len(Cfg(dr.name).submit)
      [] dr.pc = "query"        -> dr.sel < Len(Cfg(dr.name).result)
      [] dr.pc \in {"get_attribute", "request", "write", "text_content"}
                                -> dr.e < Len(Scanned(dr))
      [] OTHER -> FALSE

\* What a driver is about to return: the value pending while the browser is
\* closed, the result once it has ended.
Out(dr) == IF dr.pc = "done" THEN dr.result ELSE dr.pending

\* The routine of the image drivers (kind "image") and of the chat drivers
\* (kind "chat") as a table: from step p with result r, the next step and
\* what is about to be returned.  The two kinds differ in the scrape (an
\* image is downloaded, a text is read) and after a scan that saved nothing
\* (the image drivers return, the chat drivers take a screenshot first).
Flow(kind, p, r, more, pending) ==
    LET scan    == IF kind = "image" THEN "get_attribute" ELSE "text_content"
        unsaved == IF kind = "image" THEN <<"close", "False">> ELSE <<"shot", None>>
        next    == IF more THEN <<scan, None>> ELSE unsaved
        raised  == <<"done", "raised">>
        handler == <<"error_shot", None>>
        probe(use, absent) ==
            IF r = "found" THEN <<use, None>>
            ELSE IF more THEN <<p, None>> ELSE <<absent, None>>
    IN  CASE p = "launch"       -> IF r = "ok" THEN <<"new_context", None>> ELSE raised
          [] p = "new_context"  -> IF r = "ok" THEN <<"new_page", None>> ELSE raised
          [] p = "new_page"     -> IF r = "ok" THEN <<"goto", None>> ELSE raised
          [] p = "goto"         -> IF r = "ok" THEN <<"probe_input", None>> ELSE handler
          [] p = "probe_input"  -> probe("click_input", "shot")
          [] p = "click_input"  -> IF r = "ok" THEN <<"fill", None>> ELSE handler
          [] p = "fill"         -> IF r = "ok" THEN <<"probe_submit", None>> ELSE handler
          [] p = "probe_submit" -> probe("click_submit", "shot")
          [] p = "click_submit" -> IF r = "ok" THEN <<"query", None>> ELSE handler
          [] p = "query"        -> probe(scan, "shot")
          [] p = "get_attribute" /\ kind = "image"
                                -> IF r = "usable" THEN <<"request", None>> ELSE next
          [] p = "request" /\ kind = "image"
                                -> IF r = "image" THEN <<"write", None>> ELSE next
          [] p = "text_content" /\ kind = "chat"
                                -> IF r = "long" THEN <<"write", None>> ELSE next
          [] p = "write"        -> IF r = "ok" THEN <<"close", "True">> ELSE next
          [] p = "shot"         -> IF r = "ok" THEN <<"close", "False">> ELSE handler
          [] p = "error_shot"   -> IF r = "ok" THEN <<"close", "False">>
                                   ELSE <<"close", "raised">>
          [] p = "close"        -> IF r = "ok" THEN <<"done", pending>> ELSE raised
          [] OTHER              -> <<"no such step", None>>

\* A step of one of the drivers `names`.
DriverStep(names) ==
    pc = "driver" /\ pc' = "driver" /\ drv.name \in names /\ drv' # drv

\* The step taken is the one the routine of `kind` takes.
Follows(kind) ==
    LET t == Flow(kind, drv.pc, lastOp'.res, More(drv), drv.pending)
    IN  drv'.pc = t[1] /\ Out(drv') = t[2]

\* Where openai_chat_automation leaves the routine of the chat drivers: the
\* probe for a login element after the navigation, and no screenshot after a
\* scan of matched elements that saved nothing.
FollowsOpenai ==
    CASE drv.pc = "goto" /\ lastOp'.res = "ok" ->
           drv'.pc = "probe_login" /\ Out(drv') = None
      [] drv.pc = "probe_login" ->
           /\ drv'.pc = IF lastOp'.res = "raise" /\ More(drv)
                        THEN "probe_login" ELSE "probe_input"
           /\ Out(drv') = None
      [] /\ drv.pc \in {"text_content", "write"} /\ ~More(drv)
         /\ lastOp'.res \notin {"long", "ok"} ->
           drv'.pc = "close" /\ Out(drv') = "False"
      [] OTHER -> Follows("chat")

\* C13 as stated: all browser drivers are one routine; every one of them
\* takes, from the same step with the same result, the step that
\* claude_chat_automation takes.
C13_OneRoutine == [][DriverStep(BrowserDrivers) => Follows("chat")]_vars

\* C13: bing and craiyon are one routine up to constants, and claude, gemini
\* and perplexity are another; openai is the chat routine with a login probe
\* added and the no-response screenshot left out after a match.
C13_RoutineFamilies ==
    [][/\ DriverStep(ImageDrivers) => Follows("image")
       /\ DriverStep(ChatDrivers \ {"openai_chat_automation"}) => Follows("chat")
       /\ DriverStep({"openai_chat_automation"}) => FollowsOpenai]_vars

C13_Witness ==
    /\ drv.name = "perplexity_chat_automation" /\ drv.pc = "shot"
    /\ drv.shot = "shot_result" /\ lastOp.op = "write" /\ lastOp.res = "open_raises"

Doing(ps) ==
    /\ pc = "driver" /\ pc' = "driver" /\ drv.name \in BrowserDrivers
    /\ drv.pc \in ps /\ drv' # drv

Scrapes == {"query", "get_attribute", "decode", "request", "text_content"}
Writes  == {"write", "write_png", "write_jpg"}

\* C15: in every browser driver each step needs the one before it: the input
\* field is clicked and filled only when it was found, the button is probed
\* only after the prompt was filled and clicked only right after it was
\* found, results are scraped only after the click returned, and a file is
\* written only right after a result was scraped; without an input field no
\* button is probed or clicked, and without a button nothing is scraped.
C15_StepOrder ==
    [][/\ Doing({"click_input", "fill"}) => drv.input_field = "element"
       /\ Doing({"fill"}) =>
            lastOp = [op |-> "click_input", arg |-> "input_field", res |-> "ok"]
       /\ Doing({"probe_submit"}) => pw.fills = 1
       /\ Doing({"click_submit"}) =>
            /\ drv.button = "element" /\ pw.fills = 1
            /\ lastOp.op = "probe_submit" /\ lastOp.res = "found"
       /\ Doing(Scrapes) => (pw.clicks >= 1 /\ drv.button = "element")
       /\ Doing(Writes) =>
            /\ pw.clicks >= 1
            /\ lastOp.op \in {"decode", "request", "text_content"}
            /\ lastOp.res \in {"image", "long"}
       /\ drv.input_field = None =>
            ~Doing({"probe_submit", "click_submit"} \cup Scrapes \cup Writes)
       /\ drv.button = None => ~Doing(Scrapes \cup Writes)]_vars

C15_Witness ==
    /\ drv.name = "craiyon_image_automation" /\ drv.pending = "True"
    /\ lastOp.op = "write" /\ lastOp.res = "ok"
    /\ pw.fills = 1 /\ pw.clicks = 1 /\ pw.writes = 1

\* A step of deepai_retry_automation from one of the positions ps.
DeepaiStep(ps) == Doing(ps) /\ drv.name = DeepaiDriver

\* The loop over deepai_urls goes on: to the next URL, or past the last one
\* to the end of the function, which returns False.
ToNextUrl ==
    IF drv.url < Len(deepai_urls)
    THEN drv'.pc = "goto" /\ drv'.url = drv.url + 1
    ELSE drv'.pc = "close" /\ drv'.pending = "False"

\* The URLs are tried in list order, the first after the page was made and
\* each later one after an operation on the URL before it raised; a URL whose
\* navigation raised or on which no input selector matched is followed by the
\* next one; and the function returns True exactly after a write that
\* worked.
UrlOrder ==
    /\ DeepaiStep({"goto"}) =>
         /\ lastOp'.arg = deepai_urls[drv.url]
         /\ IF drv.url = 1 THEN lastOp.op = "new_page"
            ELSE /\ lastOp.res = "raise"
                 /\ lastOp.op \in {"goto", "probe_input", "click_input", "fill"}
                 /\ lastOp.op = "goto" => lastOp.arg = deepai_urls[drv.url - 1]
                 /\ lastOp.op = "probe_input" =>
                      lastOp.arg = deepai_input_selectors[Len(deepai_input_selectors)]
         /\ lastOp'.res = "raise" => ToNextUrl
    /\ (DeepaiStep({"probe_input"}) /\ lastOp'.res = "raise" /\ ~More(drv)) => ToNextUrl
    /\ (DeepaiStep({"probe_input"}) /\ lastOp'.res = "found") => drv'.url = drv.url
    /\ (DeepaiStep(Scrapes \cup Writes \cup {"probe_submit", "click_submit", "sleep"}))
         => (drv'.url = drv.url /\ drv'.pc # "goto")
    /\ (DeepaiStep(Scrapes \cup Writes \cup {"probe_submit", "click_submit", "sleep"})
        /\ drv'.pc = "close")
         => drv'.pending = IF lastOp'.op = "write" /\ lastOp'.res = "ok"
                           THEN "True" ELSE "False"

C17_SubmitOnce ==
    [][/\ pw'.clicks <= 1
       /\ Doing({"probe_submit", "click_submit"}) => pw.clicks = 0]_vars

\* The paths a driver writes its output to, in the output directory.
OutputNames(d) ==
    CASE d \in ChatDrivers -> {Cfg(d).out}
      [] d \in ImageDrivers ->
           {Cfg(d).out \o ToString(i) \o ".jpg" : i \in 1..Cfg(d).take}
      [] d = DeepaiDriver ->
           {Cfg(d).out \o ToString(i) \o x : i \in 1..Cfg(d).take, x \in {".png", ".jpg"}}
      [] OTHER -> {"mock-altered.jpg"}

\* The files of the output directory whose write was completed.
Complete == {f \in DOMAIN outdir : outdir[f] = "complete"}

\* At most one write of an output file is completed, a driver that returned
\* True has completed one, at one of its output paths, and after it the
\* output directory is not touched.
OneWriteCompleted ==
    /\ pw.writes <= 1
    /\ Cardinality(Complete) <= 1
    /\ (pc = "driver" /\ drv.pc = "done" /\ drv.result = "True") =>
         /\ pw.writes = 1 /\ Cardinality(Complete) = 1
         /\ Complete \subseteq OutputNames(drv.name)
         /\ lastOp.op \in {"write", "close", "write_log"}

\* C18 as stated: a driver returns True only after it completed the write of
\* one output file, the last effect on the output directory, and no
\* invocation puts two files into the output directory.
C18_OneOutputFile ==
    [][/\ OneWriteCompleted'
       /\ pw.writes = 1 => outdir' = outdir
       /\ Cardinality(DOMAIN outdir') <= 1]_vars

\* C18: a driver returns True only after it completed the write of one
\* output file, the last effect on the output directory, and no invocation
\* completes two writes; the other files it leaves there are the partial
\* ones of writes that raised, and only the image drivers, which name the
\* file after the image's index, leave them beside the complete one.
C18_OneCompleteWrite ==
    [][/\ OneWriteCompleted'
       /\ pw.writes = 1 => outdir' = outdir
       /\ \A f \in DOMAIN outdir' : outdir'[f] \in {"complete", "partial"}
       /\ (pc' = "driver" /\ drv'.name \in ChatDrivers \cup {MockDriver})
            => Cardinality(DOMAIN outdir') <= 1
       /\ (pc' = "driver" /\ DOMAIN outdir' # Complete') => pw'.write_faults >= 1]_vars

C18_Witness ==
    /\ pc = "driver" /\ drv.name \in ImageDrivers
    /\ drv.pc = "done" /\ drv.result = "True"
    /\ Cardinality(DOMAIN outdir) = 2 /\ Cardinality(Complete) = 1

\* C19 as stated: a driver that returned False or raised has left no file,
\* new or overwritten, in the output directory.
C19_FailureLeavesOutputDir ==
    (pc = "driver" /\ drv.pc = "done" /\ drv.result \in {"False", "raised"})
        => DOMAIN outdir = {}

\* C20 as stated: when a browser driver that launched a browser has ended,
\* browser.close() was called once, and it was the last operation.
C20_ClosedOnce ==
    (pc = "driver" /\ drv.name \in BrowserDrivers /\ drv.pc = "done"
     /\ pw.browsers = 1)
        => (pw.closes = 1 /\ lastOp.op = "close")

\* C21: once run_service has returned, the session log holds two entries,
\* automation_start and then one of automation_success, automation_failed
\* and automation_error, and the second is automation_success exactly when
\* run_service returned True.
C21_SessionLogEntries ==
    (args.entry = "cli" /\ success \in {"True", "False"}) =>
        /\ Len(runner.session_log) = 2
        /\ runner.session_log[1] = "automation_start"
        /\ runner.session_log[2] \in
             {"automation_success", "automation_failed", "automation_error"}
        /\ runner.session_log[2] = "automation_success" <=> success = "True"

C21_Witness ==
    /\ success = "False" /\ pc = "save" /\ drv.pc = "done" /\ drv.result = "True"
    /\ runner.session_log = <<"automation_start", "automation_error">>

\* C22: in main nothing of run_service happens (no session log entry, no
\* import, no driver call, no browser launch) unless validate_service and
\* validate_input both returned True; and validate_input is called only
\* after validate_service returned True, so with a service of the mode's
\* table.
C22_ValidationFirst ==
    [][/\ (/\ args.entry = "cli"
           /\ \/ pc' \in {"run", "driver", "save"}
              \/ drv' # Idle \/ pw' # NoPw \/ runner'.session_log # << >>
              \/ success' # None)
            => validated' = [service |-> "True", input |-> "True"]
       /\ validated'.input # validated.input =>
            /\ validated.service = "True" /\ validated.input = "not_called"
            /\ args.service \in DOMAIN AvailableServices(args.mode)
       /\ validated'.service # validated.service =>
            validated = [service |-> "not_called", input |-> "not_called"]]_vars

C22_Witness ==
    /\ args.entry = "cli" /\ args.mode = "text" /\ Validated
    /\ pc = "driver" /\ pw.browsers = 1 /\ lastOp.op = "launch"

\* C23 as stated: for both modes, a command line without --service (argparse
\* then puts DEFAULT_SERVICE in its place) names a service that
\* validate_service accepts for the mode.
C23_DefaultServiceValid ==
    (args.entry = "cli" /\ args.service = DEFAULT_SERVICE
     /\ validated.service # "not_called")
        => validated.service = "True"

\* A step of one of bing, craiyon and the chat drivers from a position of ps.
SiteStep(ps) == Doing(ps) /\ drv.name \in SiteDrivers

\* C24 as stated: bing, craiyon and the chat drivers query their result
\* selectors in list order, the next one only when the one before raised or
\* matched nothing; once a selector has matched no other is queried, and when
\* none of its elements gives an output file the driver returns False.
C24_FirstMatchingSelector ==
    [][/\ SiteStep({"query"}) =>
            /\ drv.elems = << >>
            /\ lastOp'.arg = Cfg(drv.name).result[drv.sel]
            /\ IF drv.sel = 1 THEN lastOp.op = "click_submit"
               ELSE /\ lastOp.op = "query"
                    /\ lastOp.arg = Cfg(drv.name).result[drv.sel - 1]
                    /\ lastOp.res \in {"raise", "empty"}
            /\ lastOp'.res = "found" => drv'.elems # << >>
       /\ SiteStep((Scrapes \ {"query"}) \cup Writes) =>
            (drv'.pc # "query" /\ drv'.sel = drv.sel /\ drv'.elems = drv.elems)
       /\ (/\ pc = "driver" /\ pc' = "driver" /\ drv.name \in SiteDrivers
           /\ drv.pc # "done" /\ drv'.pc = "done"
           /\ drv.elems # << >> /\ pw'.writes = 0)
            => drv'.result = "False"]_vars

\* C25 as stated: when the OpenAI, Claude or Gemini driver returns True and
\* the last element its selector matched has a long enough text, the text
\* it saved is that of the last element.
C25_SavesLastResponse ==
    [][(/\ pc = "driver" /\ pc' = "driver"
        /\ drv.name \in {"openai_chat_automation", "claude_chat_automation",
                         "gemini_chat_automation"}
        /\ drv.pc = "close" /\ drv'.pc = "done" /\ drv'.result = "True"
        /\ drv.elems[Len(drv.elems)] = "long")
         => drv'.saved = Len(drv.elems)]_vars

\* C26: when every awaited operation returns, raises or times out, every
\* driver invocation ends, by a return or by an exception that leaves the
\* function: its loops range over fixed lists and none begins again.
C26_DriverTerminates ==
    (pc = "driver" /\ drv.pc # "done") ~> (pc # "driver" \/ drv.pc = "done")

C26_Witness ==
    /\ pc = "driver" /\ drv.name = DeepaiDriver /\ drv.pc = "done"
    /\ drv.result = "False" /\ pw.cancels = 1 /\ pw.clicks = 2
    /\ lastOp = [op |-> "close", arg |-> "browser", res |-> "ok"]

====
